---- MODULE Spec2Model ----
(***************************************************************************)
(* ASE-SDK: the enforcement engine ase::Engine<State, Step>::enforce       *)
(* (include/ase/ase.hpp) together with the scalar reference host of        *)
(* tests/test_core.cpp, tests/test_integration.cpp and                     *)
(* examples/host_loop_demo.cpp.                                            *)
(*                                                                         *)
(* A double is modelled by the exact real it denotes, in fixed point with  *)
(* Unit ticks per 1.0, or by one of the non-finite values NaN, +inf, -inf. *)
(* The multiplier k of the scaling loop is an exact fraction <<n, d>>.     *)
(***************************************************************************)
EXTENDS Integers, Sequences, FiniteSets, TLC

\* ------------------------------------------------------------------ bounds
\* Largest max_scale_attempts of the generated configurations.
MaxAttempts == 3
\* Iterations of the host loop in one run.
MaxIters == 2
\* Calls that the concurrent threads make in total.
MaxCalls == 3
\* Halvings of the multiplier up to which the candidates of a proposal are
\* examined.
ShrinkDepth == 64

\* ------------------------------------------------------- program constants
\* enum class Mode : std::uint8_t
Reject == 0
Scale == 1
Project == 2
\* a std::uint8_t value outside the enumeration
UnknownMode == Project + 1
\* Config::max_scale_attempts default, and the value every test and demo sets
DefaultMaxScaleAttempts == 16

Modes == {Reject, Scale, Project, UnknownMode}

\* ----------------------------------------------------------------- doubles
\* bits of the significand of a double: 1.0 + 2^-53 rounds to 1.0
SignificandBits == 53

RECURSIVE Pow2(_)
Pow2(n) == IF n = 0 THEN 1 ELSE 2 * Pow2(n - 1)

\* 0.1 in ticks: every k = (1/2)^i, i <= 16, divides a multiple of it exactly
Tenth == Pow2(DefaultMaxScaleAttempts)
\* 1.0 in ticks
Unit == 10 * Tenth

Fin(x) == <<"fin", x>>
NaN == <<"nan", 0>>
PInf == <<"inf", 1>>
NInf == <<"inf", -1>>

\* mutant: !std::isnan in place of std::isfinite
is_finite_not_nan(v) == v[1] # "nan"

\* std::isfinite
is_finite(v) == v[1] = "fin"

Abs(x) == IF x < 0 THEN -x ELSE x

RECURSIVE Gcd(_, _)
Gcd(a, b) == IF b = 0 THEN a ELSE Gcd(b, a % b)

\* a fraction in lowest terms with a positive denominator
Frac(n, d) == LET g == Gcd(Abs(n), d) IN <<n \div g, d \div g>>

\* Config::scale_factor default
DefaultScaleFactor == Frac(1, 2)

\* double * double on two fractions
FracMul(a, b) == Frac(a[1] * b[1], a[2] * b[2])

\* a finite double times the multiplier k. The product is exact, as the
\* double product is, on the values used: tick multiples of 0.1 times
\* (1/2)^j, j <= 16, and the whole multiples of the other factors.
MulK(x, kk) == (x * kk[1]) \div kk[2]

\* a + b on doubles (IEEE: NaN absorbs, inf - inf is NaN). The finite sum
\* is the exact one. The double sum rounds; the two agree in every comparison
\* with LIMIT on the values used, whose summands are no smaller than
\* 0.1 * (1/2)^16. (They part far below that: 1.0 + 2^-53 is 1.0 in doubles.
\* The verdict on a candidate beyond 16 halvings is admissible_limit_halved.)
DAdd(a, b) ==
    IF is_finite(a) /\ is_finite(b) THEN Fin(a[2] + b[2])
    ELSE IF a = NaN \/ b = NaN THEN NaN
    ELSE IF is_finite(a) THEN b
    ELSE IF is_finite(b) THEN a
    ELSE IF a = b THEN a ELSE NaN

\* a - b on doubles
DSub(a, b) ==
    DAdd(a, IF is_finite(b) THEN Fin(-b[2])
            ELSE IF b = NaN THEN NaN
            ELSE IF b = PInf THEN NInf ELSE PInf)

\* Step{} for Step = double
StepDefault == Fin(0)

\* ------------------------------------------------ scalar reference host
\* constexpr double LIMIT = 1.0
LIMIT == Unit

\* static bool admissible_limit(const double& S, const double& dS)
admissible_limit(s, dS) ==
    IF ~is_finite(s) \/ ~is_finite(dS) THEN FALSE
    ELSE LET next == DAdd(s, dS) IN
         IF ~is_finite(next) THEN FALSE
         ELSE Abs(next[2]) <= LIMIT

\* static double neutral_zero()
neutral_zero == Fin(0)

\* static bool scale_mul(const double& in, double k, double& out):
\* <<return value, out>>; out is left as passed in when not written.
\* k is a fraction, hence finite; the products of the values used are finite.
scale_mul(in, kk, out) ==
    IF ~is_finite(in) THEN <<FALSE, out>>
    ELSE LET o == Fin(MulK(in[2], kk)) IN <<is_finite(o), o>>

\* static bool project_clamp(const double& S, const double& dS, double& out)
project_clamp(s, dS, out) ==
    IF ~is_finite(s) \/ ~is_finite(dS) THEN <<FALSE, out>>
    ELSE LET next == DAdd(s, dS) IN
         IF ~is_finite(next) THEN <<FALSE, out>>
         ELSE LET hi == IF next[2] > LIMIT THEN LIMIT ELSE next[2]
                  cl == IF hi < -LIMIT THEN -LIMIT ELSE hi
                  o == DSub(Fin(cl), s)
              IN <<is_finite(o), o>>

\* static double apply_step(const double& S, const double& dS_eff)
apply_step(s, dS_eff) == DAdd(s, dS_eff)

\* ------------------------------------------------------------ engine state
VARIABLES
    cfg,          \* Engine::cfg_  : [mode, max_scale_attempts, scale_factor]
    deps,         \* Engine::deps_ : the four function pointers
    raising,      \* whether the host's neutral_step, scale_step and project_step
                  \* may raise an exception (their documented contract has none)
    cpp_exceptions, \* whether the engine is compiled with exception support
                  \* (__cpp_exceptions defined) or without (-fno-exceptions)
    hostNeutral,  \* what an arbitrary host's neutral_step does: <<"ok", v>> or <<"throw", _>>
    S,            \* enforce's argument S
    proposed,     \* enforce's argument proposed
    pc,           \* position of the enforce call
    k,            \* enforce_scale's local k
    i,            \* enforce_scale's loop counter i
    scaled,       \* enforce_scale's local scaled
    projected,    \* enforce_project's local projected
    result,       \* the Step the last completed call returned
    calls,        \* the hook invocations of the current call, in order
    theta,        \* the host loop's state
    t,            \* the host loop's iteration counter
    run,          \* which of the two identical runs the host is in
    theta0,       \* the state both runs start from
    props,        \* the proposals of run 1, in order
    hist,         \* the states of run 1 after each iteration
    seen,         \* every completed call of the host: <<S, proposed, returned step>>
    thr           \* the threads: which one is running, and the automatic
                  \* storage of the calls of the others

engineVars == <<cfg, deps, raising, cpp_exceptions, hostNeutral>>
callVars == <<S, proposed, pc, k, i, scaled, projected, result, calls>>
hostVars == <<theta, t, run, theta0, props, hist, seen, thr>>
vars == <<cfg, deps, raising, cpp_exceptions, hostNeutral, S, proposed, pc, k, i, scaled, projected,
          result, calls, theta, t, run, theta0, props, hist, seen, thr>>

\* a host that calls from one thread only
OneThread == [cur |-> "main", saved |-> <<>>]

\* a function pointer that is not set
nullptr == "nullptr"
\* a pointer to an arbitrary deterministic function of the host
anyHook == "host"

\* the multiplier slot of an invocation that takes none
NoK == <<0, 1>>

\* one hook invocation: which hook, its Step argument, its multiplier,
\* how it ended, and the Step it produced
Ev(h, st, kk, o, v) == [hook |-> h, step |-> st, k |-> kk, out |-> o, val |-> v]

\* the steps an arbitrary host works with
HostSteps == {Fin(0), Fin(Tenth), Fin(2 * Tenth)}
\* the states an arbitrary host is called at
HostStates == {Fin(0), Fin(Unit)}

Factors == {Frac(-1, 2), Frac(0, 1), Frac(1, 2), Frac(1, 1), Frac(2, 1)}

\* how often the current call has invoked hook h
Count(h) == Cardinality({n \in 1..Len(calls) : calls[n].hook = h})

\* an exception out of a hook that the engine calls outside any try block
Raise(out) == IF raising THEN {<<"throw", out>>} ELSE {}

\* ----------------------------------------------------- the hooks, as called
\* deps_.is_admissible(S, dS): "true", "false" or "throw". An arbitrary host
\* predicate is deterministic: asked again about the same step at the same S
\* it ends the way it did before.
is_admissible_results(fp, s, dS) ==
    IF fp = "admissible_limit"
    THEN {IF admissible_limit(s, dS) THEN "true" ELSE "false"}
    ELSE LET prev == {n \in 1..Len(calls) :
                        calls[n].hook = "is_admissible" /\ calls[n].step = dS}
         IN IF prev # {} THEN {calls[CHOOSE n \in prev : TRUE].out}
            ELSE {"true", "false", "throw"}

\* deps_.scale_step(in, k, out): <<"ok" | "fail" | "throw", out>>
scale_step_results(fp, in, kk, out) ==
    IF fp = "scale_mul"
    THEN LET r == scale_mul(in, kk, out) IN {<<IF r[1] THEN "ok" ELSE "fail", r[2]>>}
    ELSE LET prev == {n \in 1..Len(calls) :
                        calls[n].hook = "scale_step" /\ calls[n].k = kk}
         IN IF prev # {}
            THEN LET e == calls[CHOOSE n \in prev : TRUE] IN {<<e.out, e.val>>}
            ELSE {<<"ok", v>> : v \in HostSteps} \cup {<<"fail", out>>} \cup Raise(out)

\* deps_.project_step(S, in, out): <<"ok" | "fail" | "throw", out>>
project_step_results(fp, s, in, out) ==
    IF fp = "project_clamp"
    THEN LET r == project_clamp(s, in, out) IN {<<IF r[1] THEN "ok" ELSE "fail", r[2]>>}
    ELSE {<<"ok", v>> : v \in HostSteps} \cup {<<"fail", out>>} \cup Raise(out)

\* deps_.neutral_step(): <<"ok" | "throw", step>>
neutral_step_results(fp) ==
    IF fp = "neutral_zero" THEN {<<"ok", neutral_zero>>} ELSE {hostNeutral}

\* ------------------------------------------------------------- the engine
\* mutant: the guard forgets the neutral_step pointer
core_hooks_missing_only_predicate(d) == d.is_admissible = nullptr

\* if (!deps_.is_admissible || !deps_.neutral_step)
core_hooks_missing(d) == d.is_admissible = nullptr \/ d.neutral_step = nullptr

\* an exception inside the noexcept functions of the engine. A unit compiled
\* with exception support has the handler that calls std::terminate. A unit
\* compiled without (-fno-exceptions) has none: the exception unwinds through
\* enforce, to a catch handler of the caller when the program has one (the
\* call is abandoned, the program goes on) and to std::terminate when not.
noexcept_outcomes(exc) == IF exc THEN {"terminated"} ELSE {"terminated", "escaped"}

\* bool safe_is_admissible(S, dS, out) noexcept, the predicate having ended
\* as o. #if defined(__cpp_exceptions): the try/catch turns an exception into
\* out = false, return false. #else: the bare call; an exception of the
\* predicate leaves the function uncaught (raised).
safe_is_admissible(o, exc) ==
    IF exc
    THEN [ok |-> o # "throw", out |-> o = "true", raised |-> FALSE]
    ELSE [ok |-> TRUE, out |-> o = "true", raised |-> o = "throw"]

\* mutant: the pass-through test is inverted
passes_through_inverted(r) == r.ok /\ ~r.out

\* enforce: evaluation succeeded and if (admissible) return proposed
passes_through(r) == r.ok /\ r.out

\* mutant: the scaled candidate is returned without looking at the verdict
scale_accepts_unverified(r) == r.ok

\* enforce_scale: evaluation succeeded and if (admissible) return scaled
scale_accepts(r) == r.ok /\ r.out

\* mutant: the projected step is returned without looking at the verdict
project_accepts_unverified(r) == r.ok

\* enforce_project: evaluation succeeded and not if (!admissible)
project_accepts(r) == r.ok /\ r.out

\* mutant: i <= max_scale_attempts
scale_loop_cond_off_by_one(ii, c) == ii <= c.max_scale_attempts

\* for (std::size_t i = 0; i < cfg_.max_scale_attempts; ++i): the condition
scale_loop_cond(ii, c) == ii < c.max_scale_attempts

\* mutant: the loop counter is never advanced
scale_next_i_stuck(ii) == ii

\* for (...; ++i)
scale_next_i(ii) == ii + 1

\* mutant: static double k = 1.0, initialised once and kept across calls
scale_k0_static(kprev) == kprev

\* double k = 1.0 (kprev is what the storage of k held before)
scale_k0(kprev) == Frac(1, 1)

\* mutant: k is never shrunk
scale_next_k_unchanged(kk, c) == kk

\* k *= cfg_.scale_factor
scale_next_k(kk, c) == FracMul(kk, c.scale_factor)

\* mutant: the return value of scale_step is ignored
scale_step_failed_ignored(o) == FALSE

\* enforce_scale: const bool ok = deps_.scale_step(...); if (!ok)
scale_step_failed(o) == o = "fail"

\* mutant: the return value of project_step is ignored
project_step_failed_ignored(o) == FALSE

\* enforce_project: const bool ok = deps_.project_step(...); if (!ok)
project_step_failed(o) == o = "fail"

\* mutant: case Mode::Reject falls through into case Mode::Scale
mode_dispatch_fallthrough(c) ==
    CASE c.mode = Reject -> "enforce_scale"
      [] c.mode = Scale -> "enforce_scale"
      [] c.mode = Project -> "enforce_project"
      [] OTHER -> "neutral_safe"

\* mutant: default: falls into the Scale strategy
mode_dispatch_default_scale(c) ==
    CASE c.mode = Reject -> "neutral_safe"
      [] c.mode = Scale -> "enforce_scale"
      [] c.mode = Project -> "enforce_project"
      [] OTHER -> "enforce_scale"

\* mutant: the Scale and Project cases are swapped
mode_dispatch_swapped(c) ==
    CASE c.mode = Reject -> "neutral_safe"
      [] c.mode = Scale -> "enforce_project"
      [] c.mode = Project -> "enforce_scale"
      [] OTHER -> "neutral_safe"

\* switch (cfg_.mode): where an inadmissible proposal goes
mode_dispatch(c) ==
    CASE c.mode = Reject -> "neutral_safe"
      [] c.mode = Scale -> "enforce_scale"
      [] c.mode = Project -> "enforce_project"
      [] OTHER -> "neutral_safe"

\* mutant: an inadmissible projection is projected again
enforce_project_exit_retry(r) ==
    IF ~r.ok THEN "neutral_safe"
    ELSE IF ~project_accepts(r) THEN "project_step"
    ELSE "returned"

\* enforce_project after the evaluation of the projected step:
\* if (!eval_ok) return neutral_safe(); if (!admissible) return neutral_safe();
\* return projected
enforce_project_exit(r) ==
    IF ~r.ok THEN "neutral_safe"
    ELSE IF ~project_accepts(r) THEN "neutral_safe"
    ELSE "returned"

\* mutant: enforce_scale calls through the pointer without testing it
enforce_scale_entry_unchecked(c, d) ==
    IF scale_loop_cond(0, c) THEN "scale_step" ELSE "neutral_safe"

\* enforce_scale up to the first test of the loop condition
enforce_scale_entry(c, d) ==
    IF d.scale_step = nullptr THEN "neutral_safe"
    ELSE IF scale_loop_cond(0, c) THEN "scale_step" ELSE "neutral_safe"

\* enforce_project: if (!deps_.project_step) return neutral_safe()
enforce_project_entry(d) ==
    IF d.project_step = nullptr THEN "neutral_safe" ELSE "project_step"

\* Step enforce(const State& S, const Step& proposed): entry and the
\* missing-hook guard
EnforceEnter(s, p) ==
    /\ S' = s
    /\ proposed' = p
    /\ calls' = <<>>
    /\ pc' = IF core_hooks_missing(deps) THEN "neutral_safe" ELSE "is_admissible"
    /\ UNCHANGED <<k, i, scaled, projected, result>>

\* enforce, from the first admissibility evaluation to the dispatch on the mode
InitialCheck ==
    /\ pc = "is_admissible"
    /\ \E o \in is_admissible_results(deps.is_admissible, S, proposed) :
         LET r == safe_is_admissible(o, cpp_exceptions) IN
         /\ calls' = Append(calls, Ev("is_admissible", proposed, NoK, o, StepDefault))
         /\ IF r.raised
            THEN /\ pc' \in noexcept_outcomes(cpp_exceptions)
                 /\ UNCHANGED <<result, k, i>>
            ELSE IF ~r.ok
            THEN pc' = "neutral_safe" /\ UNCHANGED <<result, k, i>>
            ELSE IF passes_through(r)
            THEN pc' = "returned" /\ result' = proposed /\ UNCHANGED <<k, i>>
            ELSE LET strategy == mode_dispatch(cfg) IN
                 /\ pc' = CASE strategy = "enforce_scale" -> enforce_scale_entry(cfg, deps)
                            [] strategy = "enforce_project" -> enforce_project_entry(deps)
                            [] OTHER -> strategy
                 /\ IF strategy = "enforce_scale" /\ deps.scale_step # nullptr
                    THEN k' = scale_k0(k) /\ i' = 0
                    ELSE UNCHANGED <<k, i>>
                 /\ UNCHANGED result
    /\ UNCHANGED <<S, proposed, scaled, projected>>
    /\ UNCHANGED engineVars
    /\ UNCHANGED hostVars

\* enforce_scale: Step scaled{}; deps_.scale_step(proposed, k, scaled)
ScaleStep ==
    /\ pc = "scale_step"
    /\ \E r \in scale_step_results(deps.scale_step, proposed, k, StepDefault) :
         /\ calls' = Append(calls, Ev("scale_step", proposed, k, r[1], r[2]))
         /\ scaled' = r[2]
         /\ pc' \in CASE r[1] = "throw" -> noexcept_outcomes(cpp_exceptions)
                      [] scale_step_failed(r[1]) -> {"neutral_safe"}
                      [] OTHER -> {"scale_check"}
    /\ UNCHANGED <<S, proposed, k, i, projected, result>>
    /\ UNCHANGED engineVars
    /\ UNCHANGED hostVars

\* enforce_scale: the evaluation of the candidate, k *= scale_factor, ++i
ScaleCheck ==
    /\ pc = "scale_check"
    /\ \E o \in is_admissible_results(deps.is_admissible, S, scaled) :
         LET r == safe_is_admissible(o, cpp_exceptions) IN
         /\ calls' = Append(calls, Ev("is_admissible", scaled, NoK, o, StepDefault))
         /\ IF r.raised
            THEN /\ pc' \in noexcept_outcomes(cpp_exceptions)
                 /\ UNCHANGED <<result, k, i>>
            ELSE IF ~r.ok
            THEN pc' = "neutral_safe" /\ UNCHANGED <<result, k, i>>
            ELSE IF scale_accepts(r)
            THEN pc' = "returned" /\ result' = scaled /\ UNCHANGED <<k, i>>
            ELSE /\ k' = scale_next_k(k, cfg)
                 /\ i' = scale_next_i(i)
                 /\ pc' = IF scale_loop_cond(i', cfg) THEN "scale_step"
                          ELSE "neutral_safe"
                 /\ UNCHANGED result
    /\ UNCHANGED <<S, proposed, scaled, projected>>
    /\ UNCHANGED engineVars
    /\ UNCHANGED hostVars

\* enforce_project: Step projected{}; deps_.project_step(S, proposed, projected)
ProjectStep ==
    /\ pc = "project_step"
    /\ \E r \in project_step_results(deps.project_step, S, proposed, StepDefault) :
         /\ calls' = Append(calls, Ev("project_step", proposed, NoK, r[1], r[2]))
         /\ projected' = r[2]
         /\ pc' \in CASE r[1] = "throw" -> noexcept_outcomes(cpp_exceptions)
                      [] project_step_failed(r[1]) -> {"neutral_safe"}
                      [] OTHER -> {"project_check"}
    /\ UNCHANGED <<S, proposed, k, i, scaled, result>>
    /\ UNCHANGED engineVars
    /\ UNCHANGED hostVars

\* mutant: enforce_project applies the accepted step to the state itself
ProjectCheck_applies ==
    /\ pc = "project_check"
    /\ \E o \in is_admissible_results(deps.is_admissible, S, projected) :
         LET r == safe_is_admissible(o, cpp_exceptions) IN
         /\ calls' = Append(calls, Ev("is_admissible", projected, NoK, o, StepDefault))
         /\ pc' \in IF r.raised THEN noexcept_outcomes(cpp_exceptions)
                    ELSE {enforce_project_exit(r)}
         /\ result' = IF pc' = "returned" THEN projected ELSE result
         /\ theta' = IF pc' = "returned" THEN apply_step(theta, projected) ELSE theta
         /\ S' = IF pc' = "returned" THEN apply_step(S, projected) ELSE S
    /\ UNCHANGED <<proposed, k, i, scaled, projected>>
    /\ UNCHANGED engineVars
    /\ UNCHANGED <<t, run, theta0, props, hist, seen, thr>>

\* enforce_project: the evaluation of the projected step
ProjectCheck ==
    /\ pc = "project_check"
    /\ \E o \in is_admissible_results(deps.is_admissible, S, projected) :
         LET r == safe_is_admissible(o, cpp_exceptions) IN
         /\ calls' = Append(calls, Ev("is_admissible", projected, NoK, o, StepDefault))
         /\ pc' \in IF r.raised THEN noexcept_outcomes(cpp_exceptions)
                    ELSE {enforce_project_exit(r)}
         /\ result' = IF pc' = "returned" THEN projected ELSE result
    /\ UNCHANGED <<S, proposed, k, i, scaled, projected>>
    /\ UNCHANGED engineVars
    /\ UNCHANGED hostVars

\* mutant: the neutral step is evaluated like any other candidate before it
\* is returned
NeutralSafe_reverifies ==
    /\ pc = "neutral_safe"
    /\ IF deps.neutral_step # nullptr
       THEN \E r \in neutral_step_results(deps.neutral_step) :
              /\ IF r[1] = "throw"
                 THEN /\ pc' \in noexcept_outcomes(cpp_exceptions)
                      /\ calls' = Append(calls, Ev("neutral_step", StepDefault, NoK, r[1], r[2]))
                      /\ UNCHANGED result
                 ELSE /\ pc' = "returned"
                      /\ result' = r[2]
                      /\ IF deps.is_admissible = nullptr
                         THEN calls' = Append(calls, Ev("neutral_step", StepDefault, NoK,
                                                        r[1], r[2]))
                         ELSE \E o \in is_admissible_results(deps.is_admissible, S, r[2]) :
                                calls' = Append(Append(calls, Ev("neutral_step", StepDefault,
                                                                 NoK, r[1], r[2])),
                                                Ev("is_admissible", r[2], NoK, o, StepDefault))
       ELSE /\ pc' = "returned"
            /\ result' = StepDefault
            /\ UNCHANGED calls
    /\ UNCHANGED <<S, proposed, k, i, scaled, projected>>
    /\ UNCHANGED engineVars
    /\ UNCHANGED hostVars

\* Step neutral_safe() and the return of its value by enforce
NeutralSafe ==
    /\ pc = "neutral_safe"
    /\ IF deps.neutral_step # nullptr
       THEN \E r \in neutral_step_results(deps.neutral_step) :
              /\ calls' = Append(calls, Ev("neutral_step", StepDefault, NoK, r[1], r[2]))
              /\ IF r[1] = "throw"
                 THEN pc' \in noexcept_outcomes(cpp_exceptions) /\ UNCHANGED result
                 ELSE pc' = "returned" /\ result' = r[2]
       ELSE /\ pc' = "returned"
            /\ result' = StepDefault
            /\ UNCHANGED calls
    /\ UNCHANGED <<S, proposed, k, i, scaled, projected>>
    /\ UNCHANGED engineVars
    /\ UNCHANGED hostVars

\* --------------------------------------- an arbitrary host calling enforce
Configs == [mode : Modes, max_scale_attempts : 0..MaxAttempts, scale_factor : Factors]

AnyDeps == [is_admissible : {nullptr, anyHook}, neutral_step : {nullptr, anyHook},
            scale_step : {nullptr, anyHook}, project_step : {nullptr, anyHook}]

\* Engine(const Config& cfg, const Dependencies<State, Step>& deps), with the
\* hooks of an arbitrary host
InitAny(r) ==
    /\ cfg \in Configs
    /\ deps \in AnyDeps
    /\ raising = r
    /\ cpp_exceptions \in BOOLEAN
    /\ hostNeutral \in {<<"ok", Fin(0)>>, <<"ok", Fin(Tenth)>>} \cup Raise(StepDefault)
    /\ S = Fin(0)
    /\ proposed = StepDefault
    /\ pc = "idle"
    /\ k = Frac(1, 1)
    /\ i = 0
    /\ scaled = StepDefault
    /\ projected = StepDefault
    /\ result = StepDefault
    /\ calls = <<>>
    /\ theta = Fin(0)
    /\ t = 0
    /\ run = 1
    /\ theta0 = Fin(0)
    /\ props = <<>>
    /\ hist = <<>>
    /\ seen = {}
    /\ thr = OneThread

\* every hook keeps to its documented contract
Init == InitAny(FALSE)

\* neutral_step, scale_step and project_step may also raise
InitRaise == InitAny(TRUE)

\* the host calls engine.enforce(S, proposed): the first call, the call after
\* one that returned, or the call after one whose exception the host caught
Enforce ==
    /\ pc \in {"idle", "returned", "escaped"}
    /\ \E s \in HostStates, p \in HostSteps : EnforceEnter(s, p)
    /\ UNCHANGED engineVars
    /\ UNCHANGED hostVars

Next ==
    \/ Enforce
    \/ InitialCheck
    \/ ScaleStep
    \/ ScaleCheck
    \/ ProjectStep
    \/ ProjectCheck
    \/ NeutralSafe

Spec == Init /\ [][Next]_vars

SpecRaise == InitRaise /\ [][Next]_vars

\* ------------------------------------------- the scalar reference host loop
\* Dependencies of the scalar tests, with every hook set as run_enforced does
RefDeps == [is_admissible |-> "admissible_limit", neutral_step |-> "neutral_zero",
            scale_step |-> "scale_mul", project_step |-> "project_clamp"]

\* the configurations of the tests (16 attempts by 1/2, 4 attempts by 1.0) and
\* the generated ones
HostConfigs ==
    {[mode |-> m, max_scale_attempts |-> c[1], scale_factor |-> c[2]] :
        m \in {Reject, Scale, Project},
        c \in {<<DefaultMaxScaleAttempts, DefaultScaleFactor>>, <<4, Frac(1, 1)>>}
              \cup ((0..MaxAttempts) \X Factors)}

\* proposals: admissible ones, inadmissible ones, an exploding one (x50),
\* and the non-finite ones
Proposals == {Fin(5 * Tenth), Fin(-5 * Tenth), Fin(2 * Tenth), Fin(25 * Unit), NaN, PInf}

\* the states a run starts from: S = 0.0 and S = 0.9
StartStates == {Fin(0), Fin(9 * Tenth)}

HostInit ==
    /\ cfg \in HostConfigs
    /\ deps = RefDeps
    /\ raising = FALSE
    /\ cpp_exceptions \in BOOLEAN
    /\ hostNeutral = <<"ok", neutral_zero>>
    /\ theta0 \in StartStates
    /\ theta = theta0
    /\ S = theta0
    /\ proposed = StepDefault
    /\ pc = "idle"
    /\ k = Frac(1, 1)
    /\ i = 0
    /\ scaled = StepDefault
    /\ projected = StepDefault
    /\ result = StepDefault
    /\ calls = <<>>
    /\ t = 0
    /\ run = 1
    /\ props = <<>>
    /\ hist = <<>>
    /\ seen = {}
    /\ thr = OneThread

\* const Step eff = engine.enforce(theta, proposed): run 1 proposes anything,
\* run 2 repeats the proposals of run 1
HostPropose ==
    /\ pc = "idle"
    /\ t < MaxIters
    /\ run = 2 => t < Len(props)
    /\ \E p \in (IF run = 1 THEN Proposals ELSE {props[t + 1]}) :
         /\ EnforceEnter(theta, p)
         /\ props' = IF run = 1 THEN Append(props, p) ELSE props
    /\ UNCHANGED <<theta, t, run, theta0, hist, seen, thr>>
    /\ UNCHANGED engineVars

\* S_next = apply_step(S, effective)
HostApply ==
    /\ pc = "returned"
    /\ theta' = apply_step(theta, result)
    /\ t' = t + 1
    /\ hist' = IF run = 1 THEN Append(hist, theta') ELSE hist
    /\ seen' = seen \cup {<<S, proposed, result>>}
    /\ pc' = "idle"
    /\ UNCHANGED <<S, proposed, k, i, scaled, projected, result, calls>>
    /\ UNCHANGED <<run, theta0, props, thr>>
    /\ UNCHANGED engineVars

\* the second run of the same loop: same initial state, same configuration
HostRestart ==
    /\ pc = "idle"
    /\ run = 1
    /\ t >= 1
    /\ run' = 2
    /\ theta' = theta0
    /\ t' = 0
    /\ UNCHANGED <<theta0, props, hist, seen, thr>>
    /\ UNCHANGED callVars
    /\ UNCHANGED engineVars

HostNext ==
    \/ HostPropose
    \/ HostApply
    \/ HostRestart
    \/ InitialCheck
    \/ ScaleStep
    \/ ScaleCheck
    \/ ProjectStep
    \/ ProjectCheck
    \/ NeutralSafe

SpecHost == HostInit /\ [][HostNext]_vars

\* ------------------------------------- single calls, as the unit tests make
\* the reference Dependencies, with the scale and project hooks set or left
\* at their nullptr default
RefDepsOptional ==
    {[RefDeps EXCEPT !.scale_step = a, !.project_step = b] :
        a \in {"scale_mul", nullptr}, b \in {"project_clamp", nullptr}}

\* the configurations of the unit tests: each mode with 16 attempts by 0.5
\* and with 4 attempts by 1.0
UnitConfigs ==
    {[mode |-> m, max_scale_attempts |-> c[1], scale_factor |-> c[2]] :
        m \in Modes,
        c \in {<<DefaultMaxScaleAttempts, DefaultScaleFactor>>, <<4, Frac(1, 1)>>}}

\* the states a single call is made at: S = 0.0, S = 0.9, the boundary
\* S = LIMIT that test_project's step leads to, and non-finite ones
UnitStates == StartStates \cup {Fin(LIMIT), NaN, NInf}

\* an engine over an arbitrary host, or over the scalar reference hooks
UnitInit ==
    \/ Init
    \/ /\ cfg \in UnitConfigs
       /\ deps \in RefDepsOptional
       /\ raising = FALSE
       /\ cpp_exceptions \in BOOLEAN
       /\ hostNeutral = <<"ok", neutral_zero>>
       /\ S = Fin(0)
       /\ proposed = StepDefault
       /\ pc = "idle"
       /\ k = Frac(1, 1)
       /\ i = 0
       /\ scaled = StepDefault
       /\ projected = StepDefault
       /\ result = StepDefault
       /\ calls = <<>>
       /\ theta = Fin(0)
       /\ t = 0
       /\ run = 1
       /\ theta0 = Fin(0)
       /\ props = <<>>
       /\ hist = <<>>
       /\ seen = {}
       /\ thr = OneThread

\* const double out = eng.enforce(S, proposed): the call a unit test makes on
\* the engine it has just constructed over the reference hooks
UnitEnforce ==
    /\ pc = "idle"
    /\ deps \in RefDepsOptional
    /\ \E s \in UnitStates, p \in Proposals : EnforceEnter(s, p)
    /\ seen' = {}
    /\ UNCHANGED <<theta, t, run, theta0, props, hist, thr>>
    /\ UNCHANGED engineVars

\* the hook the active mode needs besides is_admissible and neutral_step
mode_hooks(c) ==
    CASE c.mode = Scale -> {"scale_step"}
      [] c.mode = Project -> {"project_step"}
      [] OTHER -> {}

\* ase::Engine<double, double> eng(cfg, deps) once more, with the same
\* configuration and with the hooks the mode does not use set or not, and the
\* same call on the new engine
UnitRebuild ==
    /\ pc = "returned"
    /\ deps \in RefDepsOptional
    /\ seen' = seen \cup {<<S, proposed, result>>}
    /\ \E d \in RefDepsOptional :
         /\ \A h \in mode_hooks(cfg) : d[h] = deps[h]
         /\ d # deps
         /\ deps' = d
    /\ calls' = <<>>
    /\ pc' = IF core_hooks_missing(deps') THEN "neutral_safe" ELSE "is_admissible"
    /\ UNCHANGED <<S, proposed, k, i, scaled, projected, result>>
    /\ UNCHANGED <<cfg, raising, cpp_exceptions, hostNeutral>>
    /\ UNCHANGED <<theta, t, run, theta0, props, hist, thr>>

\* the call of an arbitrary host on its engine
UnitEnforceAny ==
    /\ deps \in AnyDeps
    /\ Enforce

UnitNext ==
    \/ UnitEnforceAny
    \/ UnitEnforce
    \/ UnitRebuild
    \/ InitialCheck
    \/ ScaleStep
    \/ ScaleCheck
    \/ ProjectStep
    \/ ProjectCheck
    \/ NeutralSafe

SpecUnit == UnitInit /\ [][UnitNext]_vars

\* ------------------------------- concurrent calls on one engine (pure hooks)
Threads == {"t1", "t2"}

\* the configurations the threads' engine is built with
ThreadConfigs ==
    {[mode |-> m, max_scale_attempts |-> c[1], scale_factor |-> c[2]] :
        m \in {Reject, Scale, Project},
        c \in {<<DefaultMaxScaleAttempts, DefaultScaleFactor>>, <<4, Frac(1, 1)>>}}

\* the state the threads call at: S = 0.9
ThreadStates == {Fin(9 * Tenth)}

\* what the threads propose: 0.5, 0.2 and NaN
ThreadProposals == {Fin(5 * Tenth), Fin(2 * Tenth), NaN}

\* the automatic storage of the running call: the arguments of enforce, its
\* position, and the locals of enforce_scale and enforce_project
Locals ==
    [S |-> S, proposed |-> proposed, pc |-> pc, k |-> k, i |-> i, scaled |-> scaled,
     projected |-> projected, result |-> result, calls |-> calls]

\* the storage of a thread that has not called yet
FreshLocals ==
    [S |-> Fin(0), proposed |-> StepDefault, pc |-> "idle", k |-> Frac(1, 1), i |-> 0,
     scaled |-> StepDefault, projected |-> StepDefault, result |-> StepDefault,
     calls |-> <<>>]

\* mutant: static double k - one k for all threads
resume_k_static(ctx, kNow) == kNow

\* double k is a local of enforce_scale: a resumed thread finds its own k
resume_k(ctx, kNow) == ctx.k

ThreadInit ==
    /\ cfg \in ThreadConfigs
    /\ deps = RefDeps
    /\ raising = FALSE
    /\ cpp_exceptions \in BOOLEAN
    /\ hostNeutral = <<"ok", neutral_zero>>
    /\ S = FreshLocals.S
    /\ proposed = FreshLocals.proposed
    /\ pc = FreshLocals.pc
    /\ k = FreshLocals.k
    /\ i = FreshLocals.i
    /\ scaled = FreshLocals.scaled
    /\ projected = FreshLocals.projected
    /\ result = FreshLocals.result
    /\ calls = FreshLocals.calls
    /\ theta = Fin(0)
    /\ t = 0
    /\ run = 1
    /\ theta0 = Fin(0)
    /\ props = <<>>
    /\ hist = <<>>
    /\ seen = {}
    /\ thr = [cur |-> "t1", saved |-> [th \in Threads |-> FreshLocals]]

\* the running thread calls engine.enforce(S, proposed)
ThreadCall ==
    /\ pc = "idle"
    /\ t < MaxCalls
    /\ \E s \in ThreadStates, p \in ThreadProposals : EnforceEnter(s, p)
    /\ t' = t + 1
    /\ UNCHANGED <<theta, run, theta0, props, hist, seen, thr>>
    /\ UNCHANGED engineVars

\* the running thread receives the returned step
ThreadReturn ==
    /\ pc = "returned"
    /\ seen' = seen \cup {<<S, proposed, result>>}
    /\ pc' = "idle"
    /\ UNCHANGED <<S, proposed, k, i, scaled, projected, result, calls>>
    /\ UNCHANGED <<theta, t, run, theta0, props, hist, thr>>
    /\ UNCHANGED engineVars

\* the scheduler suspends the running thread, anywhere in its call, and
\* resumes another one
ThreadSwitch ==
    /\ \E th \in Threads \ {thr.cur} :
         LET ctx == thr.saved[th] IN
         /\ thr' = [cur |-> th, saved |-> [thr.saved EXCEPT ![thr.cur] = Locals]]
         /\ S' = ctx.S
         /\ proposed' = ctx.proposed
         /\ pc' = ctx.pc
         /\ k' = resume_k(ctx, k)
         /\ i' = ctx.i
         /\ scaled' = ctx.scaled
         /\ projected' = ctx.projected
         /\ result' = ctx.result
         /\ calls' = ctx.calls
    /\ UNCHANGED <<theta, t, run, theta0, props, hist, seen>>
    /\ UNCHANGED engineVars

ThreadNext ==
    \/ ThreadCall
    \/ ThreadReturn
    \/ ThreadSwitch
    \/ InitialCheck
    \/ ScaleStep
    \/ ScaleCheck
    \/ ProjectStep
    \/ ProjectCheck
    \/ NeutralSafe

SpecThreads == ThreadInit /\ [][ThreadNext]_vars

\* ------------------- several engines over the same hooks, given the same call
\* the configurations the engines are constructed with: each mode with
\* 16 attempts by 0.5, 4 attempts by 1.0, 4 attempts by 0.5 and a single
\* attempt
EngineConfigs ==
    {[mode |-> m, max_scale_attempts |-> c[1], scale_factor |-> c[2]] :
        m \in Modes,
        c \in {<<DefaultMaxScaleAttempts, DefaultScaleFactor>>, <<4, Frac(1, 1)>>,
               <<4, DefaultScaleFactor>>, <<1, DefaultScaleFactor>>}}

\* the reference Dependencies with neutral_step left at its nullptr default
RefDepsNoNeutral == [RefDeps EXCEPT !.neutral_step = nullptr]

EnginesInit ==
    /\ cfg \in EngineConfigs
    /\ deps \in RefDepsOptional \cup {RefDepsNoNeutral}
    /\ raising = FALSE
    /\ cpp_exceptions \in BOOLEAN
    /\ hostNeutral = <<"ok", neutral_zero>>
    /\ S = Fin(0)
    /\ proposed = StepDefault
    /\ pc = "idle"
    /\ k = Frac(1, 1)
    /\ i = 0
    /\ scaled = StepDefault
    /\ projected = StepDefault
    /\ result = StepDefault
    /\ calls = <<>>
    /\ theta = Fin(0)
    /\ t = 0
    /\ run = 1
    /\ theta0 = Fin(0)
    /\ props = <<>>
    /\ hist = <<>>
    /\ seen = {}
    /\ thr = OneThread

\* const double eff = eng.enforce(S, proposed) on the first engine
EnginesEnforce ==
    /\ pc = "idle"
    /\ \E s \in UnitStates, p \in Proposals : EnforceEnter(s, p)
    /\ UNCHANGED <<theta, t, run, theta0, props, hist, seen, thr>>
    /\ UNCHANGED engineVars

\* ase::Config cfg{...}; ase::Engine<double,double> eng(cfg, deps) with
\* another configuration over the same hooks, and the same call on it; the
\* call of the engine before is kept: <<S, proposed, returned step, hook
\* invocations, configuration>>
EnginesReconfigure ==
    /\ pc = "returned"
    /\ seen' = {<<S, proposed, result, calls, cfg>>}
    /\ \E c \in EngineConfigs \ {cfg} : cfg' = c
    /\ calls' = <<>>
    /\ pc' = IF core_hooks_missing(deps) THEN "neutral_safe" ELSE "is_admissible"
    /\ UNCHANGED <<S, proposed, k, i, scaled, projected, result>>
    /\ UNCHANGED <<deps, raising, cpp_exceptions, hostNeutral>>
    /\ UNCHANGED <<theta, t, run, theta0, props, hist, thr>>

EnginesNext ==
    \/ EnginesEnforce
    \/ EnginesReconfigure
    \/ InitialCheck
    \/ ScaleStep
    \/ ScaleCheck
    \/ ProjectStep
    \/ ProjectCheck
    \/ NeutralSafe

SpecEngines == EnginesInit /\ [][EnginesNext]_vars

\* ------------------------------------------------------------- properties
\* the step neutral_step() returns
NeutralValue ==
    IF deps.neutral_step = "neutral_zero" THEN neutral_zero ELSE hostNeutral[2]

\* is_admissible(S, d) = true, as the deterministic predicate answered in
\* this call
IsAdmissibleTrue(d) ==
    IF deps.is_admissible = "admissible_limit" THEN admissible_limit(S, d)
    ELSE \E n \in 1..Len(calls) :
            /\ calls[n].hook = "is_admissible"
            /\ calls[n].step = d
            /\ calls[n].out = "true"

\* the admissible domain of the scalar host: |S| <= LIMIT
InDomain(s) == is_finite(s) /\ Abs(s[2]) <= LIMIT

AllHooksPresent ==
    /\ deps.is_admissible # nullptr
    /\ deps.neutral_step # nullptr
    /\ deps.scale_step # nullptr
    /\ deps.project_step # nullptr

\* C1 (safety invariant): whenever enforce returns on an engine that has its
\* is_admissible and neutral_step hooks (so in particular when all four are
\* present), in every mode and for every max_scale_attempts and scale_factor,
\* the returned step is one the predicate answered true for at S, or it is
\* the step neutral_step() returns.
C1_SafetyInvariant ==
    (pc = "returned" /\ deps.is_admissible # nullptr /\ deps.neutral_step # nullptr)
        => (result = NeutralValue \/ IsAdmissibleTrue(result))

\* a scaled candidate that differs from the proposal and from neutral is
\* returned by an engine with all four hooks
C1_Witness ==
    /\ pc = "returned"
    /\ AllHooksPresent
    /\ cfg.mode = Scale
    /\ Count("scale_step") >= 2
    /\ result = scaled
    /\ result # proposed
    /\ result # NeutralValue
    /\ IsAdmissibleTrue(result)

\* C2 (pass-through): in every mode, when the evaluation of
\* is_admissible(S, proposed) returns true, enforce returns proposed itself,
\* whatever max_scale_attempts and scale_factor are and whether or not the
\* scale and project hooks are set.
C2_PassThrough ==
    (/\ pc = "returned"
     /\ Len(calls) >= 1
     /\ calls[1].hook = "is_admissible"
     /\ calls[1].step = proposed
     /\ calls[1].out = "true")
        => result = proposed

\* an admissible proposal that is not the neutral step passes through a Scale
\* engine that has no scale hook
C2_Witness ==
    /\ pc = "returned"
    /\ cfg.mode = Scale
    /\ deps.scale_step = nullptr
    /\ Len(calls) = 1
    /\ calls[1].out = "true"
    /\ result = proposed
    /\ result # NeutralValue

\* C3 (host-loop envelope): in the loop S := apply_step(S, enforce(S, p)) of
\* the scalar host, started inside the domain |S| <= LIMIT, in Scale mode and
\* in Project mode, after any sequence of proposals (exploding and non-finite
\* ones included) every returned step is admissible at the state it was
\* computed for and the state is inside the domain after every iteration.
C3_HostEnvelope ==
    cfg.mode \in {Scale, Project}
        => /\ InDomain(theta)
           /\ admissible_limit(theta, neutral_zero)
           /\ pc = "returned" => (S = theta /\ admissible_limit(theta, result))

\* two iterations done, over a non-finite and an exploding proposal, and the
\* state has moved
C3_Witness ==
    /\ cfg.mode \in {Scale, Project}
    /\ pc = "idle"
    /\ t >= 2
    /\ \E n \in 1..Len(props) : ~is_finite(props[n])
    /\ \E n \in 1..Len(props) : props[n] = Fin(25 * Unit)
    /\ theta # theta0
    /\ InDomain(theta)

\* C4 (totality): whatever each of the four hooks does - return, report
\* failure, or raise - the enforce call completes by returning a step and
\* never ends abnormally: the process is not ended by std::terminate and no
\* exception leaves enforce. (Every function of the engine is noexcept and
\* only is_admissible is called inside a try block, and that only in a build
\* with exception support.)
C4_EnforceTotal == pc \notin {"terminated", "escaped"}

\* C5 (evaluation failure short-circuits): once an evaluation of
\* is_admissible has raised - at the initial check, at the check of a scaled
\* candidate, or at the check of the projected step - the call invokes no
\* further is_admissible, scale_step or project_step, and it returns the
\* neutral step. The engine compiled without exception support has no
\* try/catch around the predicate and does not return at all.
C5_EvalFailureShortCircuits ==
    \A n \in 1..Len(calls) :
        (calls[n].hook = "is_admissible" /\ calls[n].out = "throw")
            => /\ \A m \in (n + 1)..Len(calls) : calls[m].hook = "neutral_step"
               /\ pc \in {"neutral_safe", "returned"}
               /\ pc = "returned" => result = NeutralValue

\* C6 (bounded evaluations): one enforce call evaluates is_admissible at
\* most 1 + max_scale_attempts times in Scale mode and at most 2 times in
\* Reject and Project modes, whatever the hooks do.
C6_EvaluationBound ==
    cfg.mode \in {Reject, Scale, Project}
        => Count("is_admissible")
              <= (IF cfg.mode = Scale THEN 1 + cfg.max_scale_attempts ELSE 2)

\* a Scale call that used its whole budget: 1 + max_scale_attempts evaluations
C6_Witness ==
    /\ pc = "returned"
    /\ cfg.mode = Scale
    /\ cfg.max_scale_attempts >= 2
    /\ Count("is_admissible") = 1 + cfg.max_scale_attempts

\* C7 as stated: one enforce call makes at most 1 + max_scale_attempts hook
\* invocations (all four hooks counted together) in Scale mode and at most 1
\* in Reject mode and in Project mode.
C7_HookBoundAsStated ==
    cfg.mode \in {Reject, Scale, Project}
        => Len(calls) <= (IF cfg.mode = Scale THEN 1 + cfg.max_scale_attempts ELSE 1)

\* C7 (amended): one enforce call makes at most 2 + 2 * max_scale_attempts
\* hook invocations in Scale mode (the initial evaluation, a scale_step and an
\* evaluation per attempt, one neutral_step), at most 2 in Reject mode and
\* at most 4 in Project mode.
C7_HookBound ==
    cfg.mode \in {Reject, Scale, Project}
        => Len(calls) <= (CASE cfg.mode = Scale -> 2 + 2 * cfg.max_scale_attempts
                            [] cfg.mode = Reject -> 2
                            [] cfg.mode = Project -> 4)

\* a Scale call that reaches the amended bound
C7_Witness ==
    /\ pc = "returned"
    /\ cfg.mode = Scale
    /\ cfg.max_scale_attempts >= 1
    /\ Len(calls) = 2 + 2 * cfg.max_scale_attempts
    /\ Count("neutral_step") = 1

\* a step of the call in progress
CallStep ==
    \/ InitialCheck
    \/ ScaleStep
    \/ ScaleCheck
    \/ ProjectStep
    \/ ProjectCheck
    \/ NeutralSafe

\* C8 (termination for any scale factor): in Scale mode, for every
\* scale_factor (0, negative, 1, greater than 1) and every
\* max_scale_attempts, the scaling loop starts at most max_scale_attempts
\* iterations: the loop counter counts the iterations started and stays
\* below max_scale_attempts inside the loop, and a call in progress can
\* always take its next step.
C8_ScaleTerminates ==
    cfg.mode = Scale
        => /\ Count("scale_step") <= cfg.max_scale_attempts
           /\ pc \in {"scale_step", "scale_check"}
                => /\ i < cfg.max_scale_attempts
                   /\ Count("scale_step") = i + (IF pc = "scale_check" THEN 1 ELSE 0)
           /\ pc \in {"is_admissible", "scale_step", "scale_check", "neutral_safe"}
                => ENABLED CallStep

\* with scale_factor 2 the budget is used up and the call still returns
C8_Witness ==
    /\ pc = "returned"
    /\ cfg.mode = Scale
    /\ cfg.scale_factor = Frac(2, 1)
    /\ cfg.max_scale_attempts >= 2
    /\ Count("scale_step") = cfg.max_scale_attempts
    /\ i = cfg.max_scale_attempts
    /\ result = NeutralValue

\* C9 (determinism, history independence): with the deterministic hooks of
\* the scalar host, a call returns the step every earlier call with the same
\* (S, proposed) returned, whatever calls were made in between, and the
\* second run of the host loop over the same proposals passes through the
\* states of the first.
C9_Deterministic ==
    /\ pc = "returned"
         => \A e \in seen : (e[1] = S /\ e[2] = proposed) => e[3] = result
    /\ (run = 2 /\ pc = "idle" /\ t >= 1) => theta = hist[t]

\* the second run repeats, after another call, a call of the first run that
\* returned a scaled step
C9_Witness ==
    /\ run = 2
    /\ pc = "returned"
    /\ t = 1
    /\ \E e \in seen : e[1] = S /\ e[2] = proposed /\ e[3] = result
    /\ result = scaled
    /\ result # proposed
    /\ result # neutral_zero
    /\ Cardinality(seen) >= 2

\* C10 (missing core hook): when is_admissible or neutral_step is not set,
\* enforce goes straight to neutral_safe in every mode: it invokes neither
\* is_admissible nor scale_step nor project_step, and it returns what
\* neutral_safe yields - neutral_step() if that hook is set, Step{} if not.
C10_MissingCoreHook ==
    (deps.is_admissible = nullptr \/ deps.neutral_step = nullptr)
        => /\ Count("is_admissible") = 0
           /\ Count("scale_step") = 0
           /\ Count("project_step") = 0
           /\ pc \in {"idle", "neutral_safe", "returned"}
           /\ pc = "returned"
                => result = (IF deps.neutral_step # nullptr THEN NeutralValue
                             ELSE StepDefault)

\* a Scale engine without is_admissible returns the host's neutral step
C10_Witness ==
    /\ pc = "returned"
    /\ deps.is_admissible = nullptr
    /\ deps.neutral_step # nullptr
    /\ deps.scale_step # nullptr
    /\ cfg.mode = Scale
    /\ calls = <<Ev("neutral_step", StepDefault, NoK, "ok", NeutralValue)>>
    /\ result = NeutralValue
    /\ result # StepDefault
    /\ result # proposed

\* the call was made on the scalar reference hooks at S = 0.9 with
\* proposed = 0.5 (inadmissible: 0.9 + 0.5 = 1.4 > LIMIT)
RefCall ==
    /\ deps \in RefDepsOptional
    /\ S = Fin(9 * Tenth)
    /\ proposed = Fin(5 * Tenth)

\* C11 (Reject never searches): in Reject mode no call invokes scale_step or
\* project_step or evaluates is_admissible more than once, and a call whose
\* evaluation of is_admissible(S, proposed) answered false makes exactly that
\* one evaluation, then neutral_step(), and returns the neutral step.
C11_RejectNeverSearches ==
    cfg.mode = Reject
        => /\ Count("scale_step") = 0
           /\ Count("project_step") = 0
           /\ Count("is_admissible") <= 1
           /\ (pc = "returned" /\ Len(calls) >= 1 /\ calls[1].out = "false")
                => /\ Len(calls) = 2
                   /\ calls[2].hook = "neutral_step"
                   /\ result = NeutralValue

\* Reject mode, S = 0.9, proposed = 0.5 on the reference hooks returns 0.0
C11_Witness ==
    /\ pc = "returned"
    /\ cfg.mode = Reject
    /\ RefCall
    /\ deps.scale_step = "scale_mul"
    /\ deps.project_step = nullptr
    /\ Count("is_admissible") = 1
    /\ calls[1].out = "false"
    /\ result = Fin(0)

\* scale_factor^j: the value of k after j executions of k *= cfg_.scale_factor
RECURSIVE FracPow(_, _)
FracPow(f, j) == IF j = 0 THEN Frac(1, 1) ELSE FracMul(FracPow(f, j - 1), f)

\* C12 (Scale, first success wins): in Scale mode the j-th invocation of
\* scale_step (j = 0, 1, ...) is made on the original proposal with
\* k = scale_factor^j (so k_0 = 1), it is made only after the proposal and
\* every earlier candidate was evaluated inadmissible, each candidate
\* evaluated is the output of the attempt before it, and j stays below
\* max_scale_attempts; an evaluation that answers true is the last hook
\* invocation of the call, and the call then returns the step just evaluated.
C12_FirstSuccessWins ==
    cfg.mode = Scale
        => /\ \A n \in 1..Len(calls) :
                calls[n].hook = "scale_step"
                    => LET j == (n - 2) \div 2 IN
                       /\ n = 2 + 2 * j
                       /\ j < cfg.max_scale_attempts
                       /\ calls[n].step = proposed
                       /\ calls[n].k = FracPow(cfg.scale_factor, j)
                       /\ \A m \in 0..j :
                            /\ calls[1 + 2 * m].hook = "is_admissible"
                            /\ calls[1 + 2 * m].out = "false"
                            /\ calls[1 + 2 * m].step =
                                 (IF m = 0 THEN proposed ELSE calls[2 * m].val)
           /\ \A n \in 1..Len(calls) :
                (calls[n].hook = "is_admissible" /\ calls[n].out = "true")
                    => /\ n = Len(calls)
                       /\ pc = "returned"
                       /\ result = calls[n].step

\* test_scale_finds_admissible: 16 attempts by 0.5 at S = 0.9, proposed = 0.5
\* return 0.0625 = 0.5 * (1/2)^3 from the 4th attempt
C12_Witness ==
    /\ pc = "returned"
    /\ cfg = [mode |-> Scale, max_scale_attempts |-> DefaultMaxScaleAttempts,
              scale_factor |-> DefaultScaleFactor]
    /\ RefCall
    /\ deps.scale_step = "scale_mul"
    /\ deps.project_step = nullptr
    /\ Count("scale_step") = 4
    /\ i = 3
    /\ k = Frac(1, 8)
    /\ result = Fin(Unit \div 16)
    /\ result = scaled

\* no transform failed and no evaluation failed or answered true in the
\* call: every invocation before the neutral step ended "ok" or "false"
NothingFailedOrPassed ==
    \A n \in 1..Len(calls) :
        calls[n].hook # "neutral_step" => calls[n].out \in {"ok", "false"}

\* C13 (Scale exhaustion): a Scale call on an engine with its scale hook, in
\* which the proposal and every candidate were evaluated inadmissible and no
\* transform or evaluation failed, has run exactly max_scale_attempts
\* iterations of the loop when it returns (as many scale_step invocations, as
\* many candidate evaluations, i = max_scale_attempts) and returns the
\* neutral step.
C13_ScaleExhaustion ==
    (/\ cfg.mode = Scale
     /\ pc = "returned"
     /\ deps.scale_step # nullptr
     /\ Len(calls) >= 1
     /\ calls[1].hook = "is_admissible"
     /\ NothingFailedOrPassed)
        => /\ Count("scale_step") = cfg.max_scale_attempts
           /\ Count("is_admissible") = 1 + cfg.max_scale_attempts
           /\ i = cfg.max_scale_attempts
           /\ calls[Len(calls)].hook = "neutral_step"
           /\ result = NeutralValue

\* test_bounded_termination_scale: 4 attempts by 1.0 at S = 0.9,
\* proposed = 0.5 make 4 attempts and return 0.0
C13_Witness ==
    /\ pc = "returned"
    /\ cfg = [mode |-> Scale, max_scale_attempts |-> 4, scale_factor |-> Frac(1, 1)]
    /\ RefCall
    /\ deps.scale_step = "scale_mul"
    /\ deps.project_step = nullptr
    /\ NothingFailedOrPassed
    /\ Count("scale_step") = 4
    /\ k = Frac(1, 1)
    /\ scaled = proposed
    /\ result = Fin(0)

\* C14 (a failed scale transform aborts the search): once scale_step has
\* reported failure at some attempt, the call evaluates no candidate for that
\* attempt and makes no further attempt - the only hook invoked after the
\* failing scale_step is neutral_step - and the call returns the neutral
\* step, whatever budget of attempts remains.
C14_ScaleFailureAborts ==
    \A n \in 1..Len(calls) :
        (calls[n].hook = "scale_step" /\ calls[n].out = "fail")
            => /\ \A m \in (n + 1)..Len(calls) : calls[m].hook = "neutral_step"
               /\ pc \in {"neutral_safe", "returned"}
               /\ pc = "returned" => result = NeutralValue

\* scale_step failed at the second of at least three attempts, after a
\* first candidate that was not neutral; the call returned neutral at once
C14_Witness ==
    /\ pc = "returned"
    /\ cfg.mode = Scale
    /\ cfg.max_scale_attempts >= 3
    /\ Len(calls) = 5
    /\ calls[2].hook = "scale_step"
    /\ calls[2].out = "ok"
    /\ calls[2].val # NeutralValue
    /\ calls[4].hook = "scale_step"
    /\ calls[4].out = "fail"
    /\ calls[5].hook = "neutral_step"
    /\ i = 1
    /\ result = NeutralValue

\* C15 (one projection per call): in Project mode a call invokes
\* project_step at most once, whatever the hooks do (return, fail, raise) and
\* whatever the verdict on the projected step is: after the invocation of
\* project_step come at most one evaluation of its output and neutral_step,
\* never a second projection; and no scale_step is invoked.
C15_ProjectAtMostOnce ==
    cfg.mode = Project
        => /\ Count("project_step") <= 1
           /\ Count("scale_step") = 0
           /\ \A n \in 1..Len(calls) :
                calls[n].hook = "project_step"
                    => /\ n = 2
                       /\ \A m \in (n + 1)..Len(calls) :
                            calls[m].hook # "project_step"

\* the projection succeeded, its output was evaluated inadmissible, and the
\* call returned neutral with one projection made
C15_Witness ==
    /\ pc = "returned"
    /\ cfg.mode = Project
    /\ Len(calls) = 4
    /\ calls[2].hook = "project_step"
    /\ calls[2].out = "ok"
    /\ calls[3].hook = "is_admissible"
    /\ calls[3].out = "false"
    /\ calls[4].hook = "neutral_step"
    /\ Count("project_step") = 1
    /\ result = NeutralValue
    /\ result # projected

\* the call projected, the projection reported success, and its output was
\* evaluated admissible at S
ProjectionVerified ==
    /\ Len(calls) = 3
    /\ calls[2].hook = "project_step"
    /\ calls[2].out = "ok"
    /\ calls[3].hook = "is_admissible"
    /\ calls[3].step = calls[2].val
    /\ calls[3].out = "true"

\* C16 (Project verifies before trusting): a Project call whose proposal was
\* evaluated inadmissible returns the output of project_step(S, proposed)
\* exactly when project_step reported success and is_admissible(S, projected)
\* answered true; in every other case (no project hook, a failed projection,
\* an inadmissible or unevaluable output) it returns the neutral step.
C16_ProjectVerifies ==
    (/\ cfg.mode = Project
     /\ pc = "returned"
     /\ Len(calls) >= 1
     /\ calls[1].hook = "is_admissible"
     /\ calls[1].out = "false")
        => IF ProjectionVerified
           THEN result = calls[2].val /\ calls[2].step = proposed
           ELSE result = NeutralValue

\* test_project: clamp(S + dS, [-1, 1]) - S at S = 0.9, proposed = 0.5
\* returns 0.1, and the next state is exactly 1.0
C16_Witness ==
    /\ pc = "returned"
    /\ cfg.mode = Project
    /\ RefCall
    /\ deps.scale_step = nullptr
    /\ deps.project_step = "project_clamp"
    /\ ProjectionVerified
    /\ result = Fin(Tenth)
    /\ apply_step(S, result) = Fin(LIMIT)

\* C17 (missing mode-specific capability): in Scale mode without scale_step
\* and in Project mode without project_step, a call whose proposal was
\* evaluated inadmissible makes exactly that one evaluation, then
\* neutral_step(), and returns the neutral step; and an engine constructed
\* again with the same configuration, with or without the hooks its mode does
\* not use, returns for the same call the step every engine before it
\* returned.
C17_MissingModeHook ==
    /\ (/\ \/ cfg.mode = Scale /\ deps.scale_step = nullptr
           \/ cfg.mode = Project /\ deps.project_step = nullptr
        /\ pc = "returned"
        /\ Len(calls) >= 1
        /\ calls[1].hook = "is_admissible"
        /\ calls[1].out = "false")
           => /\ Len(calls) = 2
              /\ calls[2].hook = "neutral_step"
              /\ result = NeutralValue
    /\ pc = "returned"
         => \A e \in seen : (e[1] = S /\ e[2] = proposed) => e[3] = result

\* a Scale engine without scale_step, constructed a second time without the
\* project hook as well, returns 0.0 for S = 0.9, proposed = 0.5 after one
\* evaluation, as the engine before it did
C17_Witness ==
    /\ pc = "returned"
    /\ cfg.mode = Scale
    /\ RefCall
    /\ deps.scale_step = nullptr
    /\ deps.project_step = nullptr
    /\ seen = {<<S, proposed, result>>}
    /\ Len(calls) = 2
    /\ calls[1].out = "false"
    /\ result = Fin(0)

\* C18 (non-finite fail-closed): on the scalar reference hooks (with the
\* scale and project hooks set or not), in every mode, a call whose proposed
\* step is NaN or +infinity, or whose state S is not finite, returns
\* neutral_step() = 0.0.
C18_NonFiniteFailClosed ==
    (/\ pc = "returned"
     /\ deps.is_admissible = "admissible_limit"
     /\ deps.neutral_step = "neutral_zero"
     /\ (proposed \in {NaN, PInf} \/ S[1] # "fin"))
        => result = Fin(0)

\* a Scale call at S = NaN with the finite proposal 0.5: every candidate of
\* the 16 attempts is rejected and the call returns 0.0
C18_Witness ==
    /\ pc = "returned"
    /\ cfg.mode = Scale
    /\ deps.is_admissible = "admissible_limit"
    /\ deps.scale_step = "scale_mul"
    /\ S = NaN
    /\ proposed = Fin(5 * Tenth)
    /\ Count("scale_step") = DefaultMaxScaleAttempts
    /\ scaled # Fin(0)
    /\ result = Fin(0)

\* C19 (frame): no step of an enforce call changes the engine's stored
\* configuration or capability set, the state S it was called at, the
\* proposed step, or the host's state - the engine never applies a step -
\* and throughout the call and at its return S is still the host's state.
C19_Frame ==
    /\ [](pc # "idle" => S = theta)
    /\ [][pc \notin {"idle", "returned", "terminated", "escaped"}
            => /\ cfg' = cfg
               /\ deps' = deps
               /\ S' = S
               /\ proposed' = proposed
               /\ theta' = theta]_vars

\* the first call of a run has returned a projected step that is neither the
\* proposal nor neutral, and the host's state is still the initial one
C19_Witness ==
    /\ pc = "returned"
    /\ cfg.mode = Project
    /\ t = 0
    /\ result = projected
    /\ result # proposed
    /\ result # neutral_zero
    /\ theta = theta0
    /\ S = theta0
    /\ apply_step(theta, result) # theta

\* C20 (reentrancy): with threads calling enforce concurrently on one engine
\* over the pure reference hooks, under every interleaving of their steps a
\* call returns the step that every completed call with the same
\* (S, proposed) returned - the calls that ran without any step of another
\* thread in between among them - and no step of a call changes the engine's
\* configuration, its capability set, or the storage of another thread's call.
C20_Reentrant ==
    /\ [](pc = "returned"
            => \A e \in seen : (e[1] = S /\ e[2] = proposed) => e[3] = result)
    /\ [][(pc \notin {"idle", "returned"} /\ thr'.cur = thr.cur)
            => /\ thr'.saved = thr.saved
               /\ cfg' = cfg
               /\ deps' = deps]_vars

\* a thread returns the scaled step 0.0625 of the 4th attempt while the other
\* thread is suspended inside the loop of a call with the same arguments, at
\* another k
C20_Witness ==
    /\ pc = "returned"
    /\ cfg.mode = Scale
    /\ S = Fin(9 * Tenth)
    /\ proposed = Fin(5 * Tenth)
    /\ result = Fin(Unit \div 16)
    /\ k = Frac(1, 8)
    /\ \E th \in Threads \ {thr.cur} :
         /\ thr.saved[th].pc = "scale_check"
         /\ thr.saved[th].S = S
         /\ thr.saved[th].proposed = proposed
         /\ thr.saved[th].k = Frac(1, 2)
    /\ \E e \in seen : e[1] = S /\ e[2] = proposed

\* C21 (unknown mode): with a mode value outside {Reject, Scale, Project} a
\* call invokes neither scale_step nor project_step and evaluates
\* is_admissible at most once; a call that returns gives proposed when that
\* evaluation answered true and the neutral step when it answered false or
\* its exception was caught.
C21_UnknownMode ==
    cfg.mode \notin {Reject, Scale, Project}
        => /\ Count("scale_step") = 0
           /\ Count("project_step") = 0
           /\ Count("is_admissible") <= 1
           /\ (pc = "returned" /\ Len(calls) >= 1 /\ calls[1].hook = "is_admissible")
                => result = (IF calls[1].out = "true" THEN proposed ELSE NeutralValue)

\* an engine with all four hooks and an out-of-range mode returns the
\* neutral step for a proposal evaluated inadmissible
C21_Witness ==
    /\ pc = "returned"
    /\ cfg.mode = UnknownMode
    /\ cfg.max_scale_attempts >= 1
    /\ AllHooksPresent
    /\ Len(calls) = 2
    /\ calls[1].out = "false"
    /\ calls[2].hook = "neutral_step"
    /\ result = NeutralValue
    /\ result # proposed

\* C22 (the neutral step is never re-verified): an invocation of
\* neutral_step is the last hook invocation of its call - no admissibility
\* evaluation follows it - and the call returns the step it produced, also
\* when the predicate has answered false for that very step at S.
C22_NeutralNotReverified ==
    \A n \in 1..Len(calls) :
        calls[n].hook = "neutral_step"
            => /\ n = Len(calls)
               /\ pc \in {"returned", "terminated", "escaped"}
               /\ pc = "returned" => result = calls[n].val

\* the proposal is the neutral step itself, the predicate rejected it at S,
\* and the call returned it all the same, unevaluated, as the neutral step
C22_Witness ==
    /\ pc = "returned"
    /\ Len(calls) = 2
    /\ calls[1].hook = "is_admissible"
    /\ calls[1].step = NeutralValue
    /\ calls[1].out = "false"
    /\ calls[2].hook = "neutral_step"
    /\ result = NeutralValue
    /\ result # StepDefault

\* C23 as stated (multipliers in (0, 1]): in Scale mode, for every configured
\* scale_factor, every multiplier k passed to scale_step is positive and at
\* most 1, and a scaled step that is returned is neither a reversed nor an
\* enlarged version of the proposal. (The engine computes k *= scale_factor
\* on whatever factor was configured: a factor of 0, a negative factor or a
\* factor above 1 takes k out of (0, 1].)
C23_MultiplierInUnitInterval ==
    cfg.mode = Scale
        => /\ \A n \in 1..Len(calls) :
                calls[n].hook = "scale_step"
                    => (calls[n].k[1] > 0 /\ calls[n].k[1] <= calls[n].k[2])
           /\ (pc = "returned" /\ Count("scale_step") >= 1 /\ result = scaled
                 /\ is_finite(proposed) /\ is_finite(result))
                => /\ (result[2] >= 0) = (proposed[2] >= 0) \/ result[2] = 0
                   /\ Abs(result[2]) <= Abs(proposed[2])

\* a Scale call on the reference hooks with a scale_factor in (0, 1), made at
\* a finite state with a finite proposal that is inadmissible there
ShrinkingScaleCall ==
    /\ cfg.mode = Scale
    /\ cfg.max_scale_attempts >= 1
    /\ cfg.scale_factor[1] > 0
    /\ cfg.scale_factor[1] < cfg.scale_factor[2]
    /\ deps.is_admissible = "admissible_limit"
    /\ deps.neutral_step = "neutral_zero"
    /\ deps.scale_step = "scale_mul"
    /\ S[1] = "fin"
    /\ proposed[1] = "fin"
    /\ ~admissible_limit(S, proposed)

\* the call returned a scaled candidate found admissible, not the neutral
\* step of an exhausted budget
ScaledStepReturned ==
    /\ Count("neutral_step") = 0
    /\ Count("scale_step") >= 1
    /\ result = scaled
    /\ calls[Len(calls)].hook = "is_admissible"
    /\ calls[Len(calls)].step = result
    /\ calls[Len(calls)].out = "true"

\* scale_step(proposed, scale_factor^j) on the reference hook: <<ok, out>>
Candidate(j) == scale_mul(proposed, FracPow(cfg.scale_factor, j), StepDefault)

\* x / 2^n rounded up, and rounded down, for x >= 0
RECURSIVE CeilHalve(_, _)
CeilHalve(x, n) == IF n = 0 \/ x <= 1 THEN x ELSE CeilHalve((x + 1) \div 2, n - 1)

RECURSIVE FloorHalve(_, _)
FloorHalve(x, n) == IF n = 0 \/ x = 0 THEN x ELSE FloorHalve(x \div 2, n - 1)

\* admissible_limit(S, dS) for dS = p * (1/2)^j, the candidate of scale_mul
\* after j halvings of k, on finite s and p, for j beyond the halvings that
\* the ticks resolve. The double sum S + dS is rounded to nearest, ties to
\* even, and std::fabs(next) <= 1.0 then holds exactly when the real sum is
\* at most 1 + 2^-53 in magnitude: at the boundary |S| = LIMIT an outward
\* candidate is admitted once |p| * (1/2)^j <= 2^-53 (1.0 + 2^-53 is 1.0);
\* inside, 2^-53 is below what a candidate of the margin's size can differ by.
admissible_limit_halved(s, p, j) ==
    LET mag == Abs(p[2])
        slack == LIMIT - Abs(s[2])
        outward == (s[2] > 0 /\ p[2] > 0) \/ (s[2] < 0 /\ p[2] < 0)
    IN IF mag = 0 THEN slack >= 0
       ELSE IF s[2] = 0 THEN CeilHalve(mag, j) <= LIMIT
       ELSE IF ~outward
            THEN /\ CeilHalve(mag, j) <= Abs(s[2]) + LIMIT
                 /\ slack < 0 => FloorHalve(mag, j) >= -slack
       ELSE IF slack > 0 THEN CeilHalve(mag, j) <= slack
       ELSE IF slack < 0 THEN FALSE
       ELSE IF j >= SignificandBits
            THEN CeilHalve(mag, j - SignificandBits) <= Unit
            ELSE mag <= FloorHalve(Unit, SignificandBits - j)

\* the candidate of attempt j is produced, and the predicate admits it at S
AdmitsCandidate(j) ==
    IF cfg.scale_factor = DefaultScaleFactor /\ j > DefaultMaxScaleAttempts
    THEN /\ is_finite(S)
         /\ is_finite(proposed)
         /\ admissible_limit_halved(S, proposed, j)
    ELSE Candidate(j)[1] /\ admissible_limit(S, Candidate(j)[2])

\* the predicate admits the candidate of every sufficiently small multiplier
\* of the engine's sequence: of every scale_factor^j from some index m on.
\* (Beyond ShrinkDepth halvings the verdict on the proposals used no longer
\* changes: an outward candidate of a proposal below 2^11 is below 2^-53.)
AdmitsSmallMultiples ==
    \E m \in 0..ShrinkDepth : \A j \in m..ShrinkDepth : AdmitsCandidate(j)

\* the least attempt index whose candidate the predicate admits
FirstAdmissible ==
    CHOOSE n \in 0..ShrinkDepth :
        AdmitsCandidate(n) /\ \A j \in 0..(n - 1) : ~AdmitsCandidate(j)

\* the call used its whole budget: max_scale_attempts attempts, each of them
\* produced and evaluated, none admitted
BudgetExhausted ==
    /\ Count("scale_step") = cfg.max_scale_attempts
    /\ Count("is_admissible") = 1 + cfg.max_scale_attempts
    /\ NothingFailedOrPassed

\* C24 as stated (convergence whenever the zero step is admitted): in a Scale
\* call with scale_factor in (0, 1), made with an inadmissible proposal at a
\* state where the predicate admits the zero step, some attempt n has an
\* admissible candidate, so that only a budget of n attempts or fewer makes
\* the engine fall back to neutral: a call that returns neutral has spent its
\* whole budget. (A call that falls back with attempts left does the same
\* under every larger budget, and then there is no such n: a non-finite
\* proposal is inadmissible, scale_step fails on it for every multiplier, and
\* the engine returns neutral from attempt 0 whatever the budget.)
C24_ConvergesAsStated ==
    (/\ pc = "returned"
     /\ cfg.mode = Scale
     /\ cfg.max_scale_attempts >= 1
     /\ cfg.scale_factor[1] > 0
     /\ cfg.scale_factor[1] < cfg.scale_factor[2]
     /\ deps.is_admissible = "admissible_limit"
     /\ deps.neutral_step = "neutral_zero"
     /\ deps.scale_step = "scale_mul"
     /\ ~admissible_limit(S, proposed)
     /\ admissible_limit(S, neutral_zero))
        => (ScaledStepReturned \/ BudgetExhausted)

\* C24 (amended): in a Scale call with scale_factor in (0, 1), made with an
\* inadmissible proposal on which scale_step succeeds, at a state where the
\* predicate admits the candidate of every sufficiently small multiplier of
\* the sequence (and not merely the zero step), there is a least attempt
\* index n with an admissible candidate; an engine with
\* max_scale_attempts > n returns that candidate from attempt n, after n + 1
\* attempts, and an engine with max_scale_attempts <= n falls back to
\* neutral by exhaustion.
C24_Convergence ==
    (pc = "returned" /\ ShrinkingScaleCall /\ AdmitsSmallMultiples)
        => LET n == FirstAdmissible IN
           IF cfg.max_scale_attempts > n
           THEN /\ ScaledStepReturned
                /\ result = Candidate(n)[2]
                /\ Count("scale_step") = n + 1
                /\ i = n
                /\ k = FracPow(cfg.scale_factor, n)
           ELSE /\ BudgetExhausted
                /\ Count("neutral_step") = 1
                /\ result = NeutralValue

\* the exploding proposal 25.0 at S = 0.9, where 25 / 2^8 is the first
\* admissible candidate: the engine with 16 attempts returns 0.09765625 from
\* its 9th attempt, after the engine with 4 attempts had exhausted its
\* budget on the same call and returned neutral
C24_Witness ==
    /\ pc = "returned"
    /\ ShrinkingScaleCall
    /\ AdmitsSmallMultiples
    /\ S = Fin(9 * Tenth)
    /\ proposed = Fin(25 * Unit)
    /\ FirstAdmissible = 8
    /\ cfg.max_scale_attempts = DefaultMaxScaleAttempts
    /\ Count("scale_step") = 9
    /\ k = Frac(1, 256)
    /\ result = Fin((25 * Unit) \div 256)
    /\ ScaledStepReturned
    /\ \E e \in seen :
          /\ e[1] = S /\ e[2] = proposed
          /\ e[5].mode = Scale
          /\ e[5].max_scale_attempts = 4
          /\ e[5].scale_factor = cfg.scale_factor
          /\ e[3] = NeutralValue

\* what neutral_safe() yields: neutral_step(), or Step{} without the hook
NeutralSafeValue ==
    IF deps.neutral_step # nullptr THEN NeutralValue ELSE StepDefault

\* the steps hook h has produced in this call
Outputs(h) ==
    {calls[n].val : n \in {m \in 1..Len(calls) : calls[m].hook = h /\ calls[m].out = "ok"}}

\* C25 (origins of the effective step): the step a call returns is the
\* proposal, the neutral step, or - in Scale mode only - an output of a
\* scale_step(proposed, k) invocation of this call, or - in Project mode only -
\* the output of its project_step(S, proposed) invocation; Reject invokes no
\* transform, Scale never invokes project_step and Project never invokes
\* scale_step.
C25_StepOrigins ==
    /\ cfg.mode = Reject => (Count("scale_step") = 0 /\ Count("project_step") = 0)
    /\ cfg.mode = Scale => Count("project_step") = 0
    /\ cfg.mode = Project => Count("scale_step") = 0
    /\ \A n \in 1..Len(calls) :
         calls[n].hook \in {"scale_step", "project_step"} => calls[n].step = proposed
    /\ (pc = "returned" /\ cfg.mode \in {Reject, Scale, Project})
         => result \in {proposed, NeutralSafeValue}
                \cup (IF cfg.mode = Scale THEN Outputs("scale_step") ELSE {})
                \cup (IF cfg.mode = Project THEN Outputs("project_step") ELSE {})

\* a Project engine that also has a scale hook returns the output of its
\* project_step, a step that is neither the proposal nor neutral
C25_Witness ==
    /\ pc = "returned"
    /\ cfg.mode = Project
    /\ AllHooksPresent
    /\ Count("project_step") = 1
    /\ result \in Outputs("project_step")
    /\ result # proposed
    /\ result # NeutralSafeValue

\* C26 (zero attempt budget): a Scale engine with max_scale_attempts = 0
\* never invokes scale_step and evaluates is_admissible at most once; a
\* proposal evaluated inadmissible gives exactly the hook invocations of
\* Reject mode - that one evaluation, then neutral_step() - and the neutral
\* step is returned.
C26_ZeroBudget ==
    (cfg.mode = Scale /\ cfg.max_scale_attempts = 0)
        => /\ Count("scale_step") = 0
           /\ Count("project_step") = 0
           /\ Count("is_admissible") <= 1
           /\ (pc = "returned" /\ Len(calls) >= 1 /\ calls[1].out = "false")
                => /\ calls = <<Ev("is_admissible", proposed, NoK, "false", StepDefault),
                               Ev("neutral_step", StepDefault, NoK, "ok", NeutralValue)>>
                   /\ result = NeutralValue

\* a Scale engine with its scale hook and no budget returns the neutral step
\* for an inadmissible proposal; the loop was entered and left at i = 0
C26_Witness ==
    /\ pc = "returned"
    /\ cfg.mode = Scale
    /\ cfg.max_scale_attempts = 0
    /\ deps.scale_step # nullptr
    /\ Len(calls) = 2
    /\ calls[1].out = "false"
    /\ i = 0
    /\ result = NeutralValue
    /\ result # proposed

\* C27 (pass-through cost): on an engine with both core hooks the first hook
\* a call invokes is is_admissible(S, proposed), in every mode; when it
\* answers true it is the only hook invocation of the call - no neutral_step,
\* scale_step or project_step - and the call returns proposed.
C27_PassThroughCost ==
    (deps.is_admissible # nullptr /\ deps.neutral_step # nullptr)
        => /\ pc \notin {"idle", "is_admissible"}
                => /\ Len(calls) >= 1
                   /\ calls[1].hook = "is_admissible"
                   /\ calls[1].step = proposed
           /\ (Len(calls) >= 1 /\ calls[1].out = "true")
                => /\ Len(calls) = 1
                   /\ pc = "returned"
                   /\ result = proposed

\* a Project engine with all four hooks passes an admissible proposal through
\* with the single invocation is_admissible(S, proposed)
C27_Witness ==
    /\ pc = "returned"
    /\ cfg.mode = Project
    /\ AllHooksPresent
    /\ calls = <<Ev("is_admissible", proposed, NoK, "true", StepDefault)>>
    /\ result = proposed
    /\ result # NeutralValue

\* C28 (scale parameters do not leak into other modes): a Reject engine and
\* a Project engine return the step, and make the sequence of hook
\* invocations, that the engine of the same mode constructed with other
\* values of max_scale_attempts and scale_factor made for the same
\* (S, proposed).
C28_ScaleParametersDoNotLeak ==
    (pc = "returned" /\ cfg.mode \in {Reject, Project})
        => \A e \in seen :
              (e[5].mode = cfg.mode /\ e[1] = S /\ e[2] = proposed)
                 => (e[3] = result /\ e[4] = calls)

\* a Project engine with 4 attempts by 1.0 returns the projected 0.1 for
\* S = 0.9, proposed = 0.5, as did the Project engine with 16 attempts by 0.5
C28_Witness ==
    /\ pc = "returned"
    /\ cfg = [mode |-> Project, max_scale_attempts |-> 4, scale_factor |-> Frac(1, 1)]
    /\ RefCall
    /\ deps.project_step = "project_clamp"
    /\ seen = {<<S, proposed, result, calls,
                 [mode |-> Project, max_scale_attempts |-> DefaultMaxScaleAttempts,
                  scale_factor |-> DefaultScaleFactor]>>}
    /\ Len(calls) = 3
    /\ result = Fin(Tenth)

\* the attempts of the current call made with a multiplier other than 1
ShrunkAttempts ==
    Cardinality({n \in 1..Len(calls) :
                    calls[n].hook = "scale_step" /\ calls[n].k # Frac(1, 1)})

\* the engine of entry e is one of Reject / Scale with max_scale_attempts = 1,
\* the current engine is the other, and both were given the same call
RejectAndOneAttempt(e) ==
    /\ e[1] = S /\ e[2] = proposed
    /\ \/ cfg.mode = Scale /\ cfg.max_scale_attempts = 1 /\ e[5].mode = Reject
       \/ cfg.mode = Reject /\ e[5].mode = Scale /\ e[5].max_scale_attempts = 1

\* C29 (the first Scale attempt uses k = 1): with scale_step(p, 1) = p, the
\* first invocation of scale_step in a call is made with k = 1 and yields
\* the proposal itself; a Scale engine with max_scale_attempts = 1 returns
\* the step a Reject engine returns for the same (S, proposed); and an
\* engine with max_scale_attempts = n >= 1 makes at most n - 1 attempts with
\* a multiplier other than 1.
C29_FirstAttemptIsProposal ==
    /\ (cfg.mode = Scale /\ deps.scale_step = "scale_mul")
          => \A n \in 1..Len(calls) :
                (/\ calls[n].hook = "scale_step"
                 /\ \A m \in 1..(n - 1) : calls[m].hook # "scale_step")
                   => /\ calls[n].step = proposed
                      /\ calls[n].k = Frac(1, 1)
                      /\ calls[n].out = "ok" => calls[n].val = proposed
    /\ (cfg.mode = Scale /\ cfg.max_scale_attempts >= 1)
          => ShrunkAttempts <= cfg.max_scale_attempts - 1
    /\ pc = "returned"
          => \A e \in seen : RejectAndOneAttempt(e) => e[3] = result

\* a Scale engine with a single attempt spends it on proposed = 0.5 itself
\* at S = 0.9 and returns the neutral step, as the Reject engine did
C29_Witness ==
    /\ pc = "returned"
    /\ cfg.mode = Scale /\ cfg.max_scale_attempts = 1
    /\ RefCall
    /\ deps.scale_step = "scale_mul"
    /\ \E e \in seen : RejectAndOneAttempt(e) /\ e[3] = NeutralValue
    /\ Count("scale_step") = 1
    /\ calls[2] = Ev("scale_step", proposed, Frac(1, 1), "ok", proposed)
    /\ ShrunkAttempts = 0
    /\ Count("neutral_step") = 1
    /\ result = NeutralValue

\* C30 (neutral_step absent): an engine whose neutral_step hook is nullptr
\* invokes no hook at all and returns a default-constructed Step, in every
\* mode and for every input, a proposal the predicate would accept included.
C30_NoNeutralHook ==
    deps.neutral_step = nullptr
        => /\ calls = <<>>
           /\ pc \in {"idle", "neutral_safe", "returned"}
           /\ pc = "returned" => result = StepDefault

\* the reference hooks without neutral_step: proposed = 0.5 at S = 0 is
\* within the limit, yet the Scale engine returns Step{} and calls nothing
C30_Witness ==
    /\ pc = "returned"
    /\ deps = RefDepsNoNeutral
    /\ cfg.mode = Scale
    /\ S = Fin(0)
    /\ admissible_limit(S, proposed)
    /\ proposed # StepDefault
    /\ calls = <<>>
    /\ result = StepDefault

====
